---- MODULE Spec2Model ----
(***************************************************************************)
(* Casa Inteligente Multimodal (src/app.py): the house state kept in the   *)
(* Streamlit session, the command interpreter, the gesture mapping, the    *)
(* payload sent to the ESP32 and the cached MQTT client.                   *)
(*                                                                         *)
(* One action is one script run caused by one UI event: the handler of the *)
(* widget that fired, the publish it makes, and the sidebar status block   *)
(* of the run that follows (which asks for the cached client again).       *)
(*                                                                         *)
(* A text is a sequence of tokens: words and the one-blank token " ".      *)
(* Python's `x in comando` is a search for a contiguous run of characters; *)
(* over the vocabulary used here no word holds a trigger phrase or a room  *)
(* token inside it and none arises across two words, so the search for a   *)
(* contiguous run of tokens finds exactly what the character search finds. *)
(***************************************************************************)
EXTENDS Integers, Sequences, FiniteSets, TLC

VARIABLES devices,        \* st.session_state.devices
          MQTT_AVAILABLE, \* whether paho-mqtt could be imported
          cache,          \* what st.cache_resource holds for get_mqtt_client
          conexiones,     \* client.connect calls made by get_mqtt_client
          reconexiones,   \* clicks on "Reconectar MQTT"
          traza,          \* whether the run is recorded in pub, ev and pre
          pub,            \* the publish of the recorded run: made, returned, payload
          ev,             \* the recorded run: event, inputs, what it reported
          pre,            \* devices before the recorded run
          entregado,      \* recorded runs: the payload of the last publish that returned True
          mqtt_status,    \* the dict of line 34 of the current run, as the page reads it
          conectado       \* whether the cached client has its CONNACK at those reads

vars == <<devices, MQTT_AVAILABLE, cache, conexiones, reconexiones, traza, pub, ev, pre,
          entregado, mqtt_status, conectado>>

----------------------------------------------------------------------------
(* Program constants                                                       *)

VENT_MIN == 0
VENT_MAX == 3
BRILLO_MIN == 0
BRILLO_MAX == 100
BRILLO_INICIAL == 50
ANALOG_CERRADA == 0
ANALOG_ABIERTA == 100

(* Bounds                                                                  *)

\* Clicks on "Reconectar MQTT" in one behaviour.
MaxReconectar == 2
\* Outputs of the gesture model beyond the four of TM_CLASSES.
MaxSalidasExtra == 1

Rooms == {"sala", "habitacion"}

\* Positions of the brightness slider that are tried.
BrilloMuestras == {BRILLO_INICIAL, BRILLO_MAX}

Velocidades == VENT_MIN..VENT_MAX

DeviceState == [luz : BOOLEAN, brillo : BrilloMuestras, ventilador : Velocidades,
                puerta_cerrada : BOOLEAN, presencia : BOOLEAN]

HouseStates == [Rooms -> DeviceState]

EstadoInicial ==
    [r \in Rooms |-> [luz |-> FALSE, brillo |-> BRILLO_INICIAL, ventilador |-> 0,
                      puerta_cerrada |-> TRUE, presencia |-> FALSE]]

----------------------------------------------------------------------------
(* Texts                                                                   *)

Sp == " "

Frase(a, b) == <<a, Sp, b>>

LUZ_ON == << Frase("encender", "luz"), Frase("enciende", "luz"),
             Frase("luz", "on"), Frase("prende", "luz") >>
LUZ_OFF == << Frase("apagar", "luz"), Frase("apaga", "luz"), Frase("luz", "off") >>
VENT_SUBIR == << Frase("subir", "ventilador"), Frase("sube", "ventilador"),
                 Frase("aumenta", "ventilador") >>
VENT_BAJAR == << Frase("bajar", "ventilador"), Frase("baja", "ventilador"),
                 Frase("reduce", "ventilador") >>
VENT_APAGAR == << Frase("apagar", "ventilador"), Frase("apaga", "ventilador") >>
VENT_ENCENDER == << Frase("encender", "ventilador"), Frase("enciende", "ventilador") >>
PUERTA_ABRIR == << Frase("abrir", "puerta"), Frase("abre", "puerta") >>
PUERTA_CERRAR == << Frase("cerrar", "puerta"), Frase("cierra", "puerta") >>

TOKEN_SALA == <<"sala">>
TOKENS_HABITACION == << <<"habitacion">>, <<"habitación">>, <<"cuarto">>, <<"dormitorio">> >>

\* str.lower() on the tokens of the vocabulary.
lower(w) ==
    CASE w = "SALA" -> "sala"
      [] w = "ENCENDER" -> "encender"
      [] w = "LUZ" -> "luz"
      [] w = "Cerrar" -> "cerrar"
      [] w = "Puerta" -> "puerta"
      [] w = "Habitación" -> "habitación"
      [] OTHER -> w

RECURSIVE lstrip(_)
lstrip(s) == IF s # <<>> /\ Head(s) = Sp THEN lstrip(Tail(s)) ELSE s

RECURSIVE rstrip(_)
rstrip(s) == IF s # <<>> /\ s[Len(s)] = Sp THEN rstrip(SubSeq(s, 1, Len(s) - 1)) ELSE s

strip(s) == rstrip(lstrip(s))

\* comando.lower().strip()
Normalizar(s) == strip([i \in 1..Len(s) |-> lower(s[i])])

\* `frase in comando`
Contiene(comando, frase) ==
    \E i \in 1..(Len(comando) - Len(frase) + 1) :
        SubSeq(comando, i, i + Len(frase) - 1) = frase

\* any(x in comando for x in lista)
AlgunaEn(comando, lista) == \E k \in 1..Len(lista) : Contiene(comando, lista[k])

----------------------------------------------------------------------------
(* The command interpreter: ejecutar_comando                               *)

Ninguno == "ninguno"

\* A command that names no room is taken for sala.
detectar_ambiente_sala_por_defecto(comando) ==
    IF Contiene(comando, TOKEN_SALA) THEN "sala"
    ELSE IF AlgunaEn(comando, TOKENS_HABITACION) THEN "habitacion"
    ELSE "sala"

\* The secondary room is looked for first.
detectar_ambiente_habitacion_primero(comando) ==
    IF AlgunaEn(comando, TOKENS_HABITACION) THEN "habitacion"
    ELSE IF Contiene(comando, TOKEN_SALA) THEN "sala"
    ELSE Ninguno

\* Lines 203-209: the primary room is looked for first.
detectar_ambiente(comando) ==
    IF Contiene(comando, TOKEN_SALA) THEN "sala"
    ELSE IF AlgunaEn(comando, TOKENS_HABITACION) THEN "habitacion"
    ELSE Ninguno

\* The eight `any(...)` tests of lines 215-240, in the order of the code.
LISTAS == << LUZ_ON, LUZ_OFF, VENT_SUBIR, VENT_BAJAR, VENT_APAGAR, VENT_ENCENDER,
             PUERTA_ABRIR, PUERTA_CERRAR >>

Coincidencias(comando) == [i \in 1..Len(LISTAS) |-> AlgunaEn(comando, LISTAS[i])]

Min(a, b) == IF a < b THEN a ELSE b
Max(a, b) == IF a > b THEN a ELSE b

\* The step up without the limit.
SubirVentilador_sin_tope(v) == v + 1

SubirVentilador(v) == Min(VENT_MAX, v + 1)
BajarVentilador(v) == Max(VENT_MIN, v - 1)

\* A step of the interpreter works on s = [d |-> devices, cambio |-> flag].

\* The light phrases tested in the other order.
PasoLuz_apagar_primero(m, room, s) ==
    LET s1 == IF m[2] THEN [d |-> [s.d EXCEPT ![room].luz = FALSE], cambio |-> TRUE] ELSE s
    IN  IF m[1] THEN [d |-> [s1.d EXCEPT ![room].luz = TRUE], cambio |-> TRUE] ELSE s1

\* `cambio` set only when the light takes another value.
PasoLuz_cambio_si_difiere(m, room, s) ==
    LET s1 == IF m[1]
              THEN [d |-> [s.d EXCEPT ![room].luz = TRUE],
                    cambio |-> s.cambio \/ ~s.d[room].luz]
              ELSE s
    IN  IF m[2]
        THEN [d |-> [s1.d EXCEPT ![room].luz = FALSE], cambio |-> s1.cambio \/ s1.d[room].luz]
        ELSE s1

\* Lines 215-220.
PasoLuz(m, room, s) ==
    LET s1 == IF m[1] THEN [d |-> [s.d EXCEPT ![room].luz = TRUE], cambio |-> TRUE] ELSE s
    IN  IF m[2] THEN [d |-> [s1.d EXCEPT ![room].luz = FALSE], cambio |-> TRUE] ELSE s1

\* Lines 223-234.
PasoVentilador(m, room, s) ==
    LET s3 == IF m[3]
              THEN [d |-> [s.d EXCEPT ![room].ventilador = SubirVentilador(@)],
                    cambio |-> TRUE]
              ELSE s
        s4 == IF m[4]
              THEN [d |-> [s3.d EXCEPT ![room].ventilador = BajarVentilador(@)],
                    cambio |-> TRUE]
              ELSE s3
        s5 == IF m[5]
              THEN [d |-> [s4.d EXCEPT ![room].ventilador = 0], cambio |-> TRUE]
              ELSE s4
    IN  IF m[6] /\ s5.d[room].ventilador = 0
        THEN [d |-> [s5.d EXCEPT ![room].ventilador = 1], cambio |-> TRUE]
        ELSE s5

\* The door of the room that was detected.
AmbientePuerta_detectado(room) == room

\* The room whose door the door phrases move (lines 238 and 241).
AmbientePuerta(room) == "sala"

\* Lines 237-242.
PasoPuerta(m, room, s) ==
    LET s7 == IF m[7]
              THEN [d |-> [s.d EXCEPT ![AmbientePuerta(room)].puerta_cerrada = FALSE],
                    cambio |-> TRUE]
              ELSE s
    IN  IF m[8]
        THEN [d |-> [s7.d EXCEPT ![AmbientePuerta(room)].puerta_cerrada = TRUE],
              cambio |-> TRUE]
        ELSE s7

----------------------------------------------------------------------------
(* The texts that are typed                                                *)

Unir(a, b) == IF a = <<>> THEN b ELSE IF b = <<>> THEN a ELSE a \o <<Sp>> \o b

HABITACION == <<"habitacion">>

\* The first phrase of each list.
Primera(i) == LISTAS[i][1]

\* Every trigger phrase of the code followed by "sala", and the first phrase
\* of each list followed by "habitacion".
TextosUnaFrase ==
    UNION {{Unir(LISTAS[i][k], TOKEN_SALA) : k \in 1..Len(LISTAS[i])} : i \in 1..Len(LISTAS)}
    \cup {Unir(Primera(i), HABITACION) : i \in 1..Len(LISTAS)}

\* No room token: the trigger phrases alone, small talk, nothing, blanks.
TextosSinAmbiente ==
    {Primera(i) : i \in 1..Len(LISTAS)}
    \cup {<<"hola", Sp, "mundo">>, <<>>, <<Sp, Sp>>}

\* The other names of the secondary room.
TextosSinonimos ==
    {Unir(Primera(i), TOKENS_HABITACION[k]) : i \in {1, 3, 7}, k \in 2..Len(TOKENS_HABITACION)}

\* Both rooms named, in either order.
TextosDosAmbientes ==
    {Unir(<<"cuarto">>, Unir(Primera(i), TOKEN_SALA)) : i \in {1, 3, 8}}
    \cup {Unir(TOKEN_SALA, Unir(Primera(i), HABITACION)) : i \in {2, 4, 7}}

\* Two phrases of the same device in either order, and two of different devices.
Pares ==
    {<<i, j>> \in (1..Len(LISTAS)) \X (1..Len(LISTAS)) :
        /\ i # j
        /\ \/ {i, j} \subseteq 1..2
           \/ {i, j} \subseteq 3..6
           \/ {i, j} \subseteq 7..8
           \/ <<i, j>> \in {<<1, 7>>, <<8, 3>>}}

TextosDosFrases ==
    {Unir(Unir(Primera(p[1]), Primera(p[2])), a) : p \in Pares, a \in {TOKEN_SALA, HABITACION}}

\* All eight phrases in one command.
TextoTodas ==
    Unir(Primera(8), Unir(Primera(7), Unir(Primera(6), Unir(Primera(5),
    Unir(Primera(4), Unir(Primera(3), Unir(Primera(2), Primera(1))))))))

\* Capitals and blanks around, two blanks inside a phrase.
TextosCrudos ==
    {<<Sp, "ENCENDER", Sp, "LUZ", Sp, "SALA", Sp>>,
     <<"Cerrar", Sp, "Puerta", Sp, "Habitación">>,
     <<"encender", Sp, Sp, "luz", Sp, "sala">>}

Textos ==
    TextosUnaFrase \cup TextosSinAmbiente \cup TextosSinonimos \cup TextosDosAmbientes
    \cup TextosDosFrases \cup {Unir(TextoTodas, TOKEN_SALA), Unir(TextoTodas, HABITACION)}
    \cup TextosCrudos

\* Lines 200-209 and the tests of lines 215-240 on each text: what the command
\* is after lower().strip(), the room found in it and the lists that match.
Lectura ==
    [t \in Textos |->
        LET comando == Normalizar(t)
        IN  [comando |-> comando,
             room |-> detectar_ambiente(comando),
             m |-> Coincidencias(comando)]]

\* What of a text decides the run: whether it is blank (line 272), the room,
\* and with a room the lists that match.
Clave(t) ==
    [blanco |-> (strip(t) = <<>>),
     room |-> Lectura[t].room,
     m |-> IF Lectura[t].room = Ninguno THEN <<>> ELSE Lectura[t].m]

\* One text for each key: the texts tried in a run that is not recorded.
TextosDistintos == {t \in Textos : t = CHOOSE u \in Textos : Clave(u) = Clave(t)}

\* Lines 200-242: the room detected, the state and the flag `cambio` the
\* command leaves.
Interpretar(texto, d) ==
    LET room == Lectura[texto].room
        m == Lectura[texto].m
        s0 == [d |-> d, cambio |-> FALSE]
    IN  IF room = Ninguno
        THEN [room |-> Ninguno, d |-> d, cambio |-> FALSE]
        ELSE LET s == PasoPuerta(m, room, PasoVentilador(m, room, PasoLuz(m, room, s0)))
             IN  [room |-> room, d |-> s.d, cambio |-> s.cambio]

----------------------------------------------------------------------------
(* The MQTT client and the publish                                         *)

Vacio == "vacio"        \* nothing cached yet, or the cache was cleared
Cliente == "cliente"    \* a client whose connect() returned
NoneC == "None"         \* the None that get_mqtt_client returned

\* How client.connect ends, and how client.publish and the wait for its
\* confirmation end.
Enlaces == {"conecta", "falla"}
Salidas == {"publicado", "no_confirmado", "excepcion"}

\* A cache that does not keep the None of a failed connect.
get_mqtt_client_reintenta(avail, c, enlace) ==
    IF c = Cliente
    THEN [client |-> c, cache |-> c, intentos |-> 0]
    ELSE IF ~avail
    THEN [client |-> NoneC, cache |-> NoneC, intentos |-> 0]
    ELSE IF enlace = "conecta"
    THEN [client |-> Cliente, cache |-> Cliente, intentos |-> 1]
    ELSE [client |-> NoneC, cache |-> NoneC, intentos |-> 1]

\* Lines 59-86 under st.cache_resource: the value returned, what the cache
\* holds afterwards and the connect calls made.
get_mqtt_client(avail, c, enlace) ==
    IF c # Vacio
    THEN [client |-> c, cache |-> c, intentos |-> 0]
    ELSE IF ~avail
    THEN [client |-> NoneC, cache |-> NoneC, intentos |-> 0]
    ELSE IF enlace = "conecta"
    THEN [client |-> Cliente, cache |-> Cliente, intentos |-> 1]
    ELSE [client |-> NoneC, cache |-> NoneC, intentos |-> 1]

\* No payload was built.
SinPayload == [Act1 |-> "", Act2 |-> "", Vent |-> -1, Analog |-> -1]

\* The fan of the room shown last instead of the fan of sala.
Payload_vent_habitacion(d) ==
    [Act1 |-> IF d["sala"].luz THEN "ON" ELSE "OFF",
     Act2 |-> IF d["habitacion"].luz THEN "ON" ELSE "OFF",
     Vent |-> d["habitacion"].ventilador,
     Analog |-> IF d["sala"].puerta_cerrada THEN ANALOG_CERRADA ELSE ANALOG_ABIERTA]

\* Lines 110-118.
Payload(d) ==
    [Act1 |-> IF d["sala"].luz THEN "ON" ELSE "OFF",
     Act2 |-> IF d["habitacion"].luz THEN "ON" ELSE "OFF",
     Vent |-> d["sala"].ventilador,
     Analog |-> IF d["sala"].puerta_cerrada THEN ANALOG_CERRADA ELSE ANALOG_ABIERTA]

\* Without the try of lines 120-136: what client.publish raises leaves the
\* function.
publish_casa_json_sin_try(d, avail, c, enlace, salida) ==
    IF ~avail
    THEN [llamado |-> TRUE, ok |-> FALSE, msg |-> "instala", payload |-> SinPayload,
          escapa |-> FALSE, cache |-> c, intentos |-> 0]
    ELSE LET g == get_mqtt_client(avail, c, enlace)
         IN  IF g.client = NoneC
             THEN [llamado |-> TRUE, ok |-> FALSE, msg |-> "no_disponible",
                   payload |-> SinPayload, escapa |-> FALSE,
                   cache |-> g.cache, intentos |-> g.intentos]
             ELSE [llamado |-> TRUE,
                   ok |-> (salida = "publicado"),
                   msg |-> CASE salida = "publicado" -> "enviado"
                             [] salida = "no_confirmado" -> "no_confirmado"
                             [] OTHER -> "error",
                   payload |-> Payload(d), escapa |-> (salida = "excepcion"),
                   cache |-> g.cache, intentos |-> g.intentos]

\* Lines 89-136: the value returned (ok), the sidebar message, the payload
\* handed to client.publish, whether an exception leaves the function, the
\* cache afterwards and the connect calls made.
publish_casa_json(d, avail, c, enlace, salida) ==
    IF ~avail
    THEN [llamado |-> TRUE, ok |-> FALSE, msg |-> "instala", payload |-> SinPayload,
          escapa |-> FALSE, cache |-> c, intentos |-> 0]
    ELSE LET g == get_mqtt_client(avail, c, enlace)
         IN  IF g.client = NoneC
             THEN [llamado |-> TRUE, ok |-> FALSE, msg |-> "no_disponible",
                   payload |-> SinPayload, escapa |-> FALSE,
                   cache |-> g.cache, intentos |-> g.intentos]
             ELSE [llamado |-> TRUE,
                   ok |-> (salida = "publicado"),
                   msg |-> CASE salida = "publicado" -> "enviado"
                             [] salida = "no_confirmado" -> "no_confirmado"
                             [] OTHER -> "error",
                   payload |-> Payload(d), escapa |-> FALSE,
                   cache |-> g.cache, intentos |-> g.intentos]

\* A run whose handler does not publish.
SinPublicar(c) ==
    [llamado |-> FALSE, ok |-> FALSE, msg |-> "nada", payload |-> SinPayload,
     escapa |-> FALSE, cache |-> c, intentos |-> 0]

\* Lines 283-295: the status block asks for the client on every run.
sidebar(avail, c, enlace) ==
    IF avail THEN get_mqtt_client(avail, c, enlace)
    ELSE [client |-> NoneC, cache |-> c, intentos |-> 0]

\* The outcomes that can differ: connect is only called on an empty cache,
\* publish only on a client. A run that is not recorded keeps nothing of what
\* the publish returned, so one outcome is tried.
EnlacesDe(c) == IF MQTT_AVAILABLE /\ c = Vacio THEN Enlaces ELSE {"conecta"}
SalidasDe(c) == IF MQTT_AVAILABLE /\ c # NoneC /\ traza THEN Salidas ELSE {"publicado"}

----------------------------------------------------------------------------
(* Gestures                                                                *)

TM_CLASSES == <<"luz_on", "luz_off", "puerta_abierta", "puerta_cerrada">>

\* Confidence in percent, one value in each band of line 607.
UMBRAL_ALTO == 70
UMBRAL_MEDIO == 50
Confianzas == {UMBRAL_MEDIO - 10, UMBRAL_ALTO - 10, UMBRAL_ALTO + 10}

\* idx is argmax of the model's output; `falla` is predict raising.
Indices == 0..(Len(TM_CLASSES) - 1 + MaxSalidasExtra)

\* Lines 158-172, with the model loaded.
predict_gesto(idx, prob, falla) ==
    IF falla \/ idx >= Len(TM_CLASSES)
    THEN [clase |-> Ninguno, prob |-> 0]
    ELSE [clase |-> TM_CLASSES[idx + 1], prob |-> prob]

\* The label applied only above the middle threshold of line 607.
aplicar_gesto_con_umbral(clase, prob, d) ==
    IF prob <= UMBRAL_MEDIO THEN [d |-> d, cambio |-> FALSE]
    ELSE CASE clase = "luz_on" -> [d |-> [d EXCEPT !["sala"].luz = TRUE], cambio |-> TRUE]
           [] clase = "luz_off" -> [d |-> [d EXCEPT !["sala"].luz = FALSE], cambio |-> TRUE]
           [] clase = "puerta_abierta" ->
                 [d |-> [d EXCEPT !["sala"].puerta_cerrada = FALSE], cambio |-> TRUE]
           [] clase = "puerta_cerrada" ->
                 [d |-> [d EXCEPT !["sala"].puerta_cerrada = TRUE], cambio |-> TRUE]
           [] OTHER -> [d |-> d, cambio |-> FALSE]

\* Lines 612-630: the state and the flag `cambio` the label leaves.
aplicar_gesto(clase, prob, d) ==
    CASE clase = "luz_on" -> [d |-> [d EXCEPT !["sala"].luz = TRUE], cambio |-> TRUE]
      [] clase = "luz_off" -> [d |-> [d EXCEPT !["sala"].luz = FALSE], cambio |-> TRUE]
      [] clase = "puerta_abierta" ->
            [d |-> [d EXCEPT !["sala"].puerta_cerrada = FALSE], cambio |-> TRUE]
      [] clase = "puerta_cerrada" ->
            [d |-> [d EXCEPT !["sala"].puerta_cerrada = TRUE], cambio |-> TRUE]
      [] OTHER -> [d |-> d, cambio |-> FALSE]

----------------------------------------------------------------------------
(* Script runs                                                             *)

EvInicio ==
    [op |-> "inicio", room |-> Ninguno, texto |-> <<>>, clase |-> Ninguno, prob |-> 0,
     valor |-> 0, cambio |-> FALSE, aviso |-> "nada", msg |-> "nada"]

Ev(op, room) == [EvInicio EXCEPT !.op = op, !.room = room]

PubDe(p) ==
    [llamado |-> p.llamado, ok |-> p.ok, payload |-> p.payload, escapa |-> p.escapa]

\* Lines 540-548: the JSON under "Último JSON Enviado", built from the state
\* at the end of the run that draws the page.
JsonMostrado(d) ==
    [Act1 |-> IF d["sala"].luz THEN "ON" ELSE "OFF",
     Act2 |-> IF d["habitacion"].luz THEN "ON" ELSE "OFF",
     Vent |-> d["sala"].ventilador,
     Analog |-> IF d["sala"].puerta_cerrada THEN 0 ELSE 100]

\* When the CONNACK of a new client comes: within the wait of lines 77-81 or
\* after it.
Acks == {"a_tiempo", "tarde"}

\* Lines 34, 37-44 and 77-81: every run of the script makes a new mqtt_status
\* with connected False. The callbacks of a client write the dict of the run
\* that made the client, so the dict of a run is set only when that run makes
\* the client (c0 is the cache at the start of the run, c1 at its end) and
\* the CONNACK comes within the wait.
mqtt_status_de(c0, c1, ack) ==
    [connected |-> (c0 = Vacio /\ c1 = Cliente /\ ack = "a_tiempo")]

\* Whether the client has its CONNACK when the status is read: a client made
\* in this run has it if it came within the wait, a cached client has it
\* since an earlier run (drops of the link are not modelled).
conectado_de(c0, c1, ack) ==
    IF c0 = Vacio THEN (c1 = Cliente /\ ack = "a_tiempo") ELSE c1 = Cliente

\* A recorded behaviour is one run from its first state.
Libre == ~traza \/ ev.op = "inicio"

\* The end of every run: d2 is the state the handler left, p its publish (or
\* SinPublicar), and the status block of the sidebar asks for the client.
Corrida(d2, p, enlace, e) ==
    LET g == sidebar(MQTT_AVAILABLE, p.cache, enlace)
    IN  /\ devices' = d2
        /\ cache' = g.cache
        /\ conexiones' = conexiones + p.intentos + g.intentos
        /\ IF traza
           THEN /\ pub' = PubDe(p) /\ ev' = [e EXCEPT !.msg = p.msg] /\ pre' = devices
                /\ entregado' = IF p.ok THEN p.payload ELSE entregado
           ELSE UNCHANGED <<pub, ev, pre, entregado>>
        /\ mqtt_status' = mqtt_status_de(cache, g.cache, "a_tiempo")
        /\ conectado' = conectado_de(cache, g.cache, "a_tiempo")
        /\ UNCHANGED <<MQTT_AVAILABLE, reconexiones, traza>>

\* A handler that changes the state to d2 and publishes (lines 372-408, 452-456,
\* 478-502, 516-524).
Publica(d2, e) ==
    /\ Libre
    /\ \E enlace \in EnlacesDe(cache), salida \in SalidasDe(cache) :
        Corrida(d2, publish_casa_json(d2, MQTT_AVAILABLE, cache, enlace, salida), enlace, e)

\* A handler that publishes when `cambio` is set (lines 244-250, 632-647).
PublicaSi(cambio, d2, enlace, salida) ==
    IF cambio
    THEN publish_casa_json(d2, MQTT_AVAILABLE, cache, enlace, salida)
    ELSE SinPublicar(cache)

SalidasSi(cambio) == IF cambio THEN SalidasDe(cache) ELSE {"publicado"}

\* Lines 271-275 and 198-250: "Ejecutar" with a text in the box.
ComandoTexto ==
    /\ Libre
    /\ \E t \in (IF traza THEN Textos ELSE TextosDistintos), enlace \in EnlacesDe(cache) :
        IF strip(t) = <<>>
        THEN Corrida(devices, SinPublicar(cache), enlace,
                     [Ev("comando", Ninguno) EXCEPT !.texto = t, !.aviso = "escribe"])
        ELSE LET r == Interpretar(t, devices)
             IN  \E salida \in SalidasSi(r.cambio) :
                    LET p == PublicaSi(r.cambio, r.d, enlace, salida)
                        aviso == IF r.room = Ninguno THEN "especifica"
                                 ELSE IF ~r.cambio THEN "no_detectado"
                                 ELSE IF p.ok THEN "ejecutado" ELSE "error_esp32"
                    IN  Corrida(r.d, p, enlace,
                                [Ev("comando", r.room) EXCEPT !.texto = t,
                                                              !.cambio = r.cambio,
                                                              !.aviso = aviso])

\* Lines 370-380: the light button of a room on Panel General.
PanelLuz ==
    \E room \in Rooms :
        Publica([devices EXCEPT ![room].luz = ~@], Ev("panel_luz", room))

\* Lines 383-393: the fan button of a room on Panel General.
PanelVentilador ==
    \E room \in Rooms :
        Publica([devices EXCEPT ![room].ventilador = IF @ > 0 THEN 0 ELSE 1],
                Ev("panel_ventilador", room))

\* Lines 396-408: the door button of a room on Panel General.
PanelPuerta ==
    \E room \in Rooms :
        LET cerrada == ~devices[room].puerta_cerrada
            d1 == [devices EXCEPT ![room].puerta_cerrada = cerrada]
        IN  Publica([d1 EXCEPT !["sala"].puerta_cerrada = cerrada], Ev("panel_puerta", room))

\* Lines 449-456: the light toggle of Control Detallado.
DetalleLuz ==
    \E room \in Rooms :
        Publica([devices EXCEPT ![room].luz = ~@], Ev("detalle_luz", room))

\* Lines 458-465: the brightness slider; nothing is sent.
DetalleBrillo ==
    /\ Libre
    /\ \E room \in Rooms, b \in BrilloMuestras, enlace \in EnlacesDe(cache) :
        /\ b # devices[room].brillo
        /\ Corrida([devices EXCEPT ![room].brillo = b], SinPublicar(cache), enlace,
                   [Ev("detalle_brillo", room) EXCEPT !.valor = b])

\* Lines 470-484: the fan slider moved to another value.
DetalleVentSlider ==
    \E room \in Rooms, nuevo_vent \in Velocidades :
        /\ nuevo_vent # devices[room].ventilador
        /\ Publica([devices EXCEPT ![room].ventilador = nuevo_vent],
                   [Ev("detalle_slider", room) EXCEPT !.valor = nuevo_vent])

\* Lines 489-492.
DetalleVentApagar ==
    \E room \in Rooms :
        Publica([devices EXCEPT ![room].ventilador = 0], Ev("detalle_apagar", room))

\* Lines 494-497.
DetalleVentSubir ==
    \E room \in Rooms :
        Publica([devices EXCEPT ![room].ventilador = SubirVentilador(@)],
                Ev("detalle_subir", room))

\* Lines 499-502.
DetalleVentBajar ==
    \E room \in Rooms :
        Publica([devices EXCEPT ![room].ventilador = BajarVentilador(@)],
                Ev("detalle_bajar", room))

\* Lines 516-524: the two door buttons of Control Detallado.
DetallePuerta ==
    \E cerrar \in BOOLEAN :
        Publica([devices EXCEPT !["sala"].puerta_cerrada = cerrar],
                [Ev("detalle_puerta", "sala") EXCEPT !.valor = IF cerrar THEN 1 ELSE 0])

\* Lines 529-536: the presence checkbox; nothing is sent.
DetallePresencia ==
    /\ Libre
    /\ \E room \in Rooms, enlace \in EnlacesDe(cache) :
        Corrida([devices EXCEPT ![room].presencia = ~@], SinPublicar(cache), enlace,
                Ev("detalle_presencia", room))

\* Lines 592-649: a photo taken on the gestures page, with the model loaded.
\* `falla` is tried with one idx and one prob, which it does not read.
Gesto ==
    /\ Libre
    /\ \E idx \in Indices, prob \in (IF traza THEN Confianzas ELSE {UMBRAL_ALTO + 10}),
       falla \in BOOLEAN, enlace \in EnlacesDe(cache) :
        LET g == predict_gesto(idx, prob, falla)
            r == IF g.clase # Ninguno
                 THEN aplicar_gesto(g.clase, g.prob, devices)
                 ELSE [d |-> devices, cambio |-> FALSE]
        IN  /\ falla => idx = 0 /\ prob = UMBRAL_ALTO + 10
            /\ \E salida \in SalidasSi(r.cambio) :
                  Corrida(r.d, PublicaSi(r.cambio, r.d, enlace, salida), enlace,
                          [Ev("gesto", "sala") EXCEPT !.clase = g.clase, !.prob = g.prob,
                                                      !.cambio = r.cambio])

\* Lines 316-318: the cache is cleared and the script runs again, so the status
\* block of the sidebar makes a new client.
Reconectar ==
    \E enlace \in Enlaces, ack \in Acks :
        /\ Libre
        /\ reconexiones < MaxReconectar
        /\ MQTT_AVAILABLE \/ enlace = "conecta"
        /\ LET g == sidebar(MQTT_AVAILABLE, Vacio, enlace)
           IN  /\ g.cache # Cliente => ack = "a_tiempo"
               /\ cache' = g.cache
               /\ mqtt_status' = mqtt_status_de(Vacio, g.cache, ack)
               /\ conectado' = conectado_de(Vacio, g.cache, ack)
               /\ conexiones' = conexiones + g.intentos
               /\ reconexiones' = reconexiones + 1
               /\ IF traza
                  THEN pub' = PubDe(SinPublicar(Vacio)) /\ ev' = Ev("reconectar", Ninguno)
                       /\ pre' = devices
                  ELSE UNCHANGED <<pub, ev, pre>>
               /\ UNCHANGED <<devices, MQTT_AVAILABLE, traza, entregado>>

Next ==
    \/ ComandoTexto
    \/ PanelLuz
    \/ PanelVentilador
    \/ PanelPuerta
    \/ DetalleLuz
    \/ DetalleBrillo
    \/ DetalleVentSlider
    \/ DetalleVentApagar
    \/ DetalleVentSubir
    \/ DetalleVentBajar
    \/ DetallePuerta
    \/ DetallePresencia
    \/ Gesto
    \/ Reconectar

\* The first run of the script: lines 176-192 and the status block.
Arranque(d, t) ==
    \E avail \in BOOLEAN, enlace \in Enlaces, ack \in Acks :
        /\ avail \/ enlace = "conecta"
        /\ LET g == sidebar(avail, Vacio, enlace)
           IN  /\ g.cache # Cliente => ack = "a_tiempo"
               /\ MQTT_AVAILABLE = avail
               /\ cache = g.cache
               /\ conexiones = g.intentos
               /\ mqtt_status = mqtt_status_de(Vacio, g.cache, ack)
               /\ conectado = conectado_de(Vacio, g.cache, ack)
               \* A recorded run starts with the state of the house delivered,
               \* or with nothing delivered where no publish can have been.
               /\ entregado = IF t /\ g.cache = Cliente THEN Payload(d) ELSE SinPayload
        /\ devices = d
        /\ reconexiones = 0
        /\ pub = PubDe(SinPublicar(Vacio))
        /\ traza = t
        /\ ev = EvInicio
        /\ pre = d

Init == Arranque(EstadoInicial, FALSE)

\* Every sequence of runs of one session.
Spec == Init /\ [][Next]_vars

\* One recorded run from a state of the house: any values of the fields that
\* are commanded and sent; brillo and presencia of a room as at the start or
\* both moved.
Adornos == {[brillo |-> BRILLO_INICIAL, presencia |-> FALSE],
            [brillo |-> BRILLO_MAX, presencia |-> TRUE]}

EstadosPaso ==
    {d \in HouseStates :
        \A r \in Rooms : [brillo |-> d[r].brillo, presencia |-> d[r].presencia] \in Adornos}

InitPaso == \E d \in EstadosPaso : Arranque(d, TRUE)

SpecPaso == InitPaso /\ [][Next]_vars

----------------------------------------------------------------------------
(* Properties                                                              *)

\* C1: in every reachable state the ventilador of both rooms is an integer
\* from 0 to 3; the step up at 3 gives 3 and the step down at 0 gives 0.
C1_VentiladorEnRango ==
    \A r \in Rooms :
        /\ devices[r].ventilador \in {0, 1, 2, 3}
        /\ devices[r].ventilador = 3 => SubirVentilador(devices[r].ventilador) = 3
        /\ devices[r].ventilador = 0 => BajarVentilador(devices[r].ventilador) = 0

\* The fan of sala was taken to 3 while the fan of habitacion is at 0.
C1_Witness ==
    /\ devices["sala"].ventilador = 3
    /\ devices["habitacion"].ventilador = 0
    /\ SubirVentilador(devices["sala"].ventilador) = 3
    /\ BajarVentilador(devices["habitacion"].ventilador) = 0

\* The states that differ from d only in brillo and presencia of both rooms
\* and in ventilador and puerta_cerrada of habitacion.
Variantes(d) ==
    {[d EXCEPT !["sala"].brillo = bs, !["sala"].presencia = ps,
               !["habitacion"].brillo = bh, !["habitacion"].presencia = ph,
               !["habitacion"].ventilador = v, !["habitacion"].puerta_cerrada = pc] :
        bs \in BrilloMuestras, bh \in BrilloMuestras, ps \in BOOLEAN, ph \in BOOLEAN,
        v \in Velocidades, pc \in BOOLEAN}

\* C2: the payload handed to client.publish is Act1 = ON iff sala.luz, Act2 = ON
\* iff habitacion.luz, Vent = sala.ventilador, Analog = 0 iff sala.puerta_cerrada
\* and 100 otherwise; every state that differs only in brillo, presencia or the
\* ventilador and puerta_cerrada of habitacion gives the same payload.
C2_PayloadExacto ==
    pub.payload # SinPayload =>
        /\ pub.payload.Act1 \in {"ON", "OFF"}
        /\ pub.payload.Act1 = "ON" <=> devices["sala"].luz
        /\ pub.payload.Act2 \in {"ON", "OFF"}
        /\ pub.payload.Act2 = "ON" <=> devices["habitacion"].luz
        /\ pub.payload.Vent = devices["sala"].ventilador
        /\ pub.payload.Analog \in {0, 100}
        /\ pub.payload.Analog = 0 <=> devices["sala"].puerta_cerrada
        /\ DOMAIN pub.payload = {"Act1", "Act2", "Vent", "Analog"}
        /\ \A d \in Variantes(devices) : Payload(d) = pub.payload

\* A payload was sent with the door of sala open, while habitacion has another
\* fan speed, a closed door and another brillo than sala.
C2_Witness ==
    /\ pub.payload # SinPayload
    /\ pub.payload.Analog = 100
    /\ pub.payload.Act1 = "ON"
    /\ pub.payload.Act2 = "OFF"
    /\ devices["habitacion"].ventilador # devices["sala"].ventilador
    /\ devices["habitacion"].puerta_cerrada
    /\ devices["habitacion"].brillo # devices["sala"].brillo
    /\ devices["sala"].presencia

\* C10: get_mqtt_client connects at most once for each time the cache is
\* emptied: the connect calls are at most 1 plus the clicks on Reconectar (none
\* without paho-mqtt); while the cache holds None a publish returns False and
\* connects nothing, however the broker would answer; and a run without a
\* click on Reconectar leaves the cached value and the number of connect calls
\* as they were.
C10_Estado ==
    /\ conexiones <= 1 + reconexiones
    /\ ~MQTT_AVAILABLE => conexiones = 0
    /\ MQTT_AVAILABLE => conexiones = 1 + reconexiones
    /\ cache = NoneC =>
          \A enlace \in Enlaces, salida \in Salidas :
              LET p == publish_casa_json(devices, MQTT_AVAILABLE, cache, enlace, salida)
              IN  ~p.ok /\ p.intentos = 0 /\ p.cache = NoneC

C10_Paso ==
    reconexiones' = reconexiones => cache' = cache /\ conexiones' = conexiones

C10_UnaConexion == []C10_Estado /\ [][C10_Paso]_vars

\* The first connect succeeded, then two clicks on Reconectar: three connect
\* calls in all, the last of which failed, so None is cached.
C10_Witness ==
    /\ MQTT_AVAILABLE
    /\ reconexiones = 2
    /\ conexiones = 3
    /\ cache = NoneC
    /\ devices # EstadoInicial

----------------------------------------------------------------------------
(* Properties of the recorded run                                          *)

EsComando == ev.op = "comando"

\* The recorded text after lower().strip(), and whether a list matches it.
Cmd == Normalizar(ev.texto)
Hay(lista) == AlgunaEn(Cmd, lista)

TieneSala == Contiene(Cmd, <<"sala">>)
TieneHabitacion ==
    \E tok \in {"habitacion", "habitación", "cuarto", "dormitorio"} : Contiene(Cmd, <<tok>>)
TieneAmbiente == TieneSala \/ TieneHabitacion

C4_SinAmbienteNoCambia ==
    EsComando /\ ~TieneAmbiente =>
        /\ devices = pre
        /\ ~ev.cambio
        /\ ~pub.llamado
        /\ pub.payload = SinPayload
        /\ ev.aviso \in {"especifica", "escribe"}

\* "encender luz" with no room, on a house whose light of sala is off.
C4_Witness ==
    /\ EsComando
    /\ ~TieneAmbiente
    /\ Hay(LUZ_ON)
    /\ ~pre["sala"].luz
    /\ ~devices["sala"].luz
    /\ ev.aviso = "especifica"

\* What the handler of the recorded event writes, from the state d.
Esperado(e, d) ==
    CASE e.op \in {"panel_luz", "detalle_luz"} -> [d EXCEPT ![e.room].luz = ~d[e.room].luz]
      [] e.op = "panel_ventilador" ->
            [d EXCEPT ![e.room].ventilador = IF d[e.room].ventilador > 0 THEN 0 ELSE 1]
      [] e.op = "panel_puerta" ->
            [r \in Rooms |->
                IF r \in {e.room, "sala"}
                THEN [d[r] EXCEPT !.puerta_cerrada = ~d[e.room].puerta_cerrada]
                ELSE d[r]]
      [] e.op = "detalle_slider" -> [d EXCEPT ![e.room].ventilador = e.valor]
      [] e.op = "detalle_apagar" -> [d EXCEPT ![e.room].ventilador = 0]
      [] e.op = "detalle_subir" ->
            [d EXCEPT ![e.room].ventilador = IF @ < 3 THEN @ + 1 ELSE 3]
      [] e.op = "detalle_bajar" ->
            [d EXCEPT ![e.room].ventilador = IF @ > 0 THEN @ - 1 ELSE 0]
      [] e.op = "detalle_puerta" -> [d EXCEPT !["sala"].puerta_cerrada = (e.valor = 1)]
      [] e.op = "gesto" /\ e.clase \in {"luz_on", "luz_off"} ->
            [d EXCEPT !["sala"].luz = (e.clase = "luz_on")]
      [] e.op = "gesto" /\ e.clase \in {"puerta_abierta", "puerta_cerrada"} ->
            [d EXCEPT !["sala"].puerta_cerrada = (e.clase = "puerta_cerrada")]
      [] e.op = "comando" -> Interpretar(e.texto, d).d
      [] OTHER -> d

\* C5: a publish that fails (no paho-mqtt, None cached, publish raising, no
\* confirmation) returns False, lets no exception out, and the state is the one
\* the handler wrote before it: nothing is rolled back.
C5_FalloNoRevierte ==
    pub.llamado =>
        /\ ev.msg \in {"instala", "no_disponible", "no_confirmado", "error", "enviado"}
        /\ ~MQTT_AVAILABLE => ev.msg = "instala"
        /\ MQTT_AVAILABLE /\ cache = NoneC => ev.msg = "no_disponible"
        /\ pub.ok <=> ev.msg = "enviado"
        /\ ~pub.escapa
        /\ ~pub.ok => devices = Esperado(ev, pre)

\* client.publish raised under a text command that turned the light of sala on.
C5_Witness ==
    /\ EsComando
    /\ pub.llamado
    /\ ~pub.ok
    /\ ev.msg = "error"
    /\ ev.aviso = "error_esp32"
    /\ ~pre["sala"].luz
    /\ devices["sala"].luz

\* The fan of the detected room after the four fan steps taken in the order
\* up, down, off, on-if-zero, each on the value the one before left.
VentTrasPasos(v) ==
    LET v3 == IF Hay(VENT_SUBIR) THEN (IF v < 3 THEN v + 1 ELSE 3) ELSE v
        v4 == IF Hay(VENT_BAJAR) THEN (IF v3 > 0 THEN v3 - 1 ELSE 0) ELSE v3
        v5 == IF Hay(VENT_APAGAR) THEN 0 ELSE v4
    IN  [antes_de_encender |-> v5,
         final |-> IF Hay(VENT_ENCENDER) /\ v5 = 0 THEN 1 ELSE v5]

\* C6: with a room detected the state is the one left by light-on, light-off,
\* fan-up, fan-down, fan-off, fan-on-if-zero, door-open, door-close applied in
\* that order, each matching step on the state the one before left: on and off
\* together leave luz false, open and close together leave sala.puerta_cerrada
\* true, fan-on-if-zero tests the fan left by the earlier fan steps.
C6_OrdenFijo ==
    EsComando /\ ev.room # Ninguno =>
        /\ devices[ev.room].luz =
              (IF Hay(LUZ_OFF) THEN FALSE
               ELSE IF Hay(LUZ_ON) THEN TRUE ELSE pre[ev.room].luz)
        /\ devices[ev.room].ventilador = VentTrasPasos(pre[ev.room].ventilador).final
        /\ devices["sala"].puerta_cerrada =
              (IF Hay(PUERTA_CERRAR) THEN TRUE
               ELSE IF Hay(PUERTA_ABRIR) THEN FALSE ELSE pre["sala"].puerta_cerrada)
        /\ Hay(LUZ_ON) /\ Hay(LUZ_OFF) => ~devices[ev.room].luz
        /\ Hay(PUERTA_ABRIR) /\ Hay(PUERTA_CERRAR) => devices["sala"].puerta_cerrada
        /\ Hay(VENT_APAGAR) /\ Hay(VENT_ENCENDER) => devices[ev.room].ventilador = 1
        /\ Hay(VENT_SUBIR) /\ Hay(VENT_ENCENDER) /\ ~Hay(VENT_BAJAR) /\ ~Hay(VENT_APAGAR)
              => devices[ev.room].ventilador = (IF pre[ev.room].ventilador < 3
                                                THEN pre[ev.room].ventilador + 1 ELSE 3)

\* All eight phrases in one command, written in the reverse of the order of
\* the code, on a room with the light off, the fan at 3 and the door open.
C6_Witness ==
    /\ EsComando
    /\ ev.room = "sala"
    /\ \A i \in 1..Len(LISTAS) : Hay(LISTAS[i])
    /\ ~pre["sala"].luz /\ ~devices["sala"].luz
    /\ pre["sala"].ventilador = 3 /\ devices["sala"].ventilador = 1
    /\ ~pre["sala"].puerta_cerrada /\ devices["sala"].puerta_cerrada

\* C7: a gesture label changes only sala: luz_on and luz_off set sala.luz,
\* puerta_abierta and puerta_cerrada set sala.puerta_cerrada, whatever the
\* confidence; habitacion and the other fields of sala stay; no label, or a
\* label outside the four, changes nothing and publishes nothing.
C7_GestoSoloSala ==
    /\ ev.op = "gesto" =>
        /\ devices["habitacion"] = pre["habitacion"]
        /\ devices["sala"].ventilador = pre["sala"].ventilador
        /\ devices["sala"].brillo = pre["sala"].brillo
        /\ devices["sala"].presencia = pre["sala"].presencia
        /\ ev.clase = "luz_on" => devices["sala"].luz
        /\ ev.clase = "luz_off" => ~devices["sala"].luz
        /\ ev.clase \in {"luz_on", "luz_off"}
              => devices["sala"].puerta_cerrada = pre["sala"].puerta_cerrada
        /\ ev.clase = "puerta_abierta" => ~devices["sala"].puerta_cerrada
        /\ ev.clase = "puerta_cerrada" => devices["sala"].puerta_cerrada
        /\ ev.clase \in {"puerta_abierta", "puerta_cerrada"}
              => devices["sala"].luz = pre["sala"].luz
        /\ ev.clase \in {"luz_on", "luz_off", "puerta_abierta", "puerta_cerrada"}
              => ev.cambio /\ pub.llamado
        /\ ev.clase \notin {"luz_on", "luz_off", "puerta_abierta", "puerta_cerrada"}
              => devices = pre /\ ~ev.cambio /\ ~pub.llamado
    /\ \A prob \in Confianzas :
          aplicar_gesto("otro_gesto", prob, devices) = [d |-> devices, cambio |-> FALSE]

\* luz_on with a confidence under the lowest threshold turned the light of
\* sala on.
C7_Witness ==
    /\ ev.op = "gesto"
    /\ ev.clase = "luz_on"
    /\ ev.prob < UMBRAL_MEDIO
    /\ ~pre["sala"].luz
    /\ devices["sala"].luz
    /\ pub.llamado

\* Whether one of the assignments of lines 215-242 ran.
PasoEjecutado ==
    /\ ev.room # Ninguno
    /\ \/ Hay(LUZ_ON) \/ Hay(LUZ_OFF)
       \/ Hay(VENT_SUBIR) \/ Hay(VENT_BAJAR) \/ Hay(VENT_APAGAR)
       \/ Hay(VENT_ENCENDER) /\ VentTrasPasos(pre[ev.room].ventilador).antes_de_encender = 0
       \/ Hay(PUERTA_ABRIR) \/ Hay(PUERTA_CERRAR)

\* C8 as claimed: `cambio` is true exactly when some field of the house has
\* another value after the command than before it.
C8_CambioSiDifiere == EsComando => (ev.cambio <=> devices # pre)

\* C8 as amended: `cambio` is true exactly when one of the assignments ran (a
\* list matched, for fan-on with the fan at 0 at that step), also when the
\* value written is the one already there; a field that changes implies
\* `cambio`; the publish is called exactly when `cambio` is true; with no list
\* matching nothing changes, nothing is published and "no valid command" is
\* reported.
C8_CambioSiPaso ==
    EsComando =>
        /\ ev.cambio <=> (strip(ev.texto) # <<>> /\ TieneAmbiente /\ PasoEjecutado)
        /\ devices # pre => ev.cambio
        /\ pub.llamado <=> ev.cambio
        /\ ev.cambio => ev.aviso \in {"ejecutado", "error_esp32"}
        /\ ~ev.cambio => devices = pre /\ ev.aviso \in {"no_detectado", "especifica", "escribe"}
        /\ TieneAmbiente /\ (\A i \in 1..Len(LISTAS) : ~Hay(LISTAS[i]))
              => ~ev.cambio /\ devices = pre /\ ~pub.llamado /\ ev.aviso = "no_detectado"

\* "apagar luz sala" with the light of sala already off: nothing changed, and
\* `cambio` was set and the publish called.
C8_Witness ==
    /\ EsComando
    /\ Hay(LUZ_OFF)
    /\ devices = pre
    /\ ev.cambio
    /\ pub.llamado

\* C9: a text with "sala" in it has its light and fan phrases applied to sala,
\* also with a token of the secondary room in it; a text with only a token of
\* the secondary room has them applied to habitacion; luz and ventilador of
\* the other room stay.
C9_SalaPrimero ==
    EsComando /\ strip(ev.texto) # <<>> =>
        /\ TieneSala =>
              /\ ev.room = "sala"
              /\ devices["habitacion"].luz = pre["habitacion"].luz
              /\ devices["habitacion"].ventilador = pre["habitacion"].ventilador
        /\ ~TieneSala /\ TieneHabitacion =>
              /\ ev.room = "habitacion"
              /\ devices["sala"].luz = pre["sala"].luz
              /\ devices["sala"].ventilador = pre["sala"].ventilador
        /\ TieneAmbiente =>
              /\ Hay(LUZ_ON) /\ ~Hay(LUZ_OFF) => devices[ev.room].luz
              /\ Hay(LUZ_OFF) => ~devices[ev.room].luz
              /\ Hay(VENT_APAGAR) /\ ~Hay(VENT_ENCENDER) => devices[ev.room].ventilador = 0
              /\ Hay(VENT_SUBIR) /\ ~Hay(VENT_BAJAR) /\ ~Hay(VENT_APAGAR)
                    /\ pre[ev.room].ventilador < 3
                    => devices[ev.room].ventilador = pre[ev.room].ventilador + 1

\* "cuarto encender luz sala": the light of sala went on, the one of
\* habitacion stayed off.
C9_Witness ==
    /\ EsComando
    /\ TieneSala
    /\ TieneHabitacion
    /\ Hay(LUZ_ON)
    /\ ~pre["sala"].luz /\ devices["sala"].luz
    /\ ~pre["habitacion"].luz /\ ~devices["habitacion"].luz

\* The runs that end with the page Control Detallado drawn.
EnControlDetallado ==
    ev.op \in {"detalle_luz", "detalle_brillo", "detalle_slider", "detalle_apagar",
               "detalle_subir", "detalle_bajar", "detalle_puerta", "detalle_presencia"}

\* C11: on Control Detallado the JSON under "Último JSON Enviado" is the
\* payload of the last publish that returned True, also after a publish that
\* failed and when nothing was delivered yet.
C11_MuestraLoEntregado ==
    EnControlDetallado => JsonMostrado(devices) = entregado

\* The light toggle of sala with a publish that returned False: the page shows
\* Act1 "ON" and the last payload delivered has Act1 "OFF".
C11_Witness ==
    /\ ev.op = "detalle_luz"
    /\ pub.llamado
    /\ ~pub.ok
    /\ entregado = Payload(pre)
    /\ entregado.Act1 = "OFF"
    /\ JsonMostrado(devices).Act1 = "ON"

\* C12: on every run of the script, the first and the later ones, while the
\* cached client is connected to the broker mqtt_status["connected"] is true
\* where the sidebar (line 287) and Panel General (line 328) read it.
C12_EstadoConectado ==
    cache = Cliente /\ conectado => mqtt_status.connected

\* A run after the first, with the client of the first run still cached and
\* connected: the dict of this run says not connected.
C12_Witness ==
    /\ MQTT_AVAILABLE
    /\ cache = Cliente
    /\ conectado
    /\ conexiones = 1
    /\ reconexiones = 0
    /\ devices # EstadoInicial
    /\ ~mqtt_status.connected

====
